---- MODULE Spec2Model ----
(***************************************************************************)
(* Signed Request Envelope verifier (student_agent/verify_sre.py).          *)
(*                                                                         *)
(* A JSON-decoded mapping is composed, signed by an issuer (or given a     *)
(* forged signature string), possibly altered in transit, and handed to    *)
(* verify_sre, which runs its stages one at a time while the environment   *)
(* variable and the key file may change underneath it.                     *)
(***************************************************************************)
EXTENDS Integers, Sequences, FiniteSets, TLC

\* ------------------------------------------------------------------ bounds
\* Number of Ed25519 key pairs in the world.
NumKeys == 2
\* Length in bytes of an Ed25519 signature in the model (64 in reality).
SigLen == 4
Keys == 1..NumKeys

\* ------------------------------------------------------- JSON-decoded values
\* A value of the mapping json.loads produced.  t is the Python type, s the
\* text of a str, n the number of an int (a float holds its value in tenths,
\* so 1.0 is 10), b the characters of a str holding base64 text.
Str(s) == [t |-> "str", s |-> s, n |-> 0, b |-> <<>>]
IntV(n) == [t |-> "int", s |-> "", n |-> n, b |-> <<>>]
FloatV(tenths) == [t |-> "float", s |-> "", n |-> tenths, b |-> <<>>]
Null == [t |-> "null", s |-> "", n |-> 0, b |-> <<>>]
B64Str(cs) == [t |-> "str", s |-> "", n |-> 0, b |-> cs]

\* json.loads turns the escape \ud800 into a str holding a lone surrogate.
LoneSurrogate == "\\ud800"
HasSurrogate(v) == v.t = "str" /\ v.s = LoneSurrogate

\* The deadline texts of the model that are ISO-8601 date-times.
IsoTexts == {"2025-10-15T23:59:59+05:30", "2025-10-16T00:00:00"}
\* The texts of the model that Python's int() / float() read as a number.
NumericTexts == {"0", "1"}
TextToInt(s) == IF s = "0" THEN 0 ELSE 1

\* -------------------------------------------------------------- the mapping
\* A dict keeps insertion order: a sequence of [k, v] items with distinct k.
Has(d, k) == \E i \in 1..Len(d) : d[i].k = k
Get(d, k) == d[CHOOSE i \in 1..Len(d) : d[i].k = k].v
DictSet(d, k, v) ==
    IF Has(d, k) THEN [i \in 1..Len(d) |-> IF d[i].k = k THEN [k |-> k, v |-> v] ELSE d[i]]
    ELSE Append(d, [k |-> k, v |-> v])
DictPop(d, k) == SelectSeq(d, LAMBDA it : it.k # k)
DictKeys(d) == {d[i].k : i \in 1..Len(d)}

\* ------------------------------------------------------------- schema (SRE)
\* The fields of the pydantic model, in declaration order.
SRE == << [name |-> "assignment_id", type |-> "str",      required |-> TRUE],
          [name |-> "student_id",    type |-> "str",      required |-> TRUE],
          [name |-> "repo_template", type |-> "str",      required |-> FALSE],
          [name |-> "round",         type |-> "int",      required |-> TRUE],
          [name |-> "deadline",      type |-> "datetime", required |-> TRUE],
          [name |-> "nonce",         type |-> "str",      required |-> FALSE],
          [name |-> "signature",     type |-> "str",      required |-> TRUE] >>

\* pydantic's str validator: a str only (no coercion), which must be valid
\* unicode.  "" is no error.
StrError(v) ==
    IF v.t # "str" THEN "string_type"
    ELSE IF HasSurrogate(v) THEN "string_unicode"
    ELSE ""

\* pydantic's int validator in lax mode, then Field(ge=1): an int, a float
\* without a fractional part and a numeric str are all taken as the int.
IntGe1Error(v) ==
    IF v.t = "int" THEN (IF v.n >= 1 THEN "" ELSE "greater_than_equal")
    ELSE IF v.t = "float" THEN
        (IF v.n % 10 # 0 THEN "int_from_float"
         ELSE IF v.n \div 10 >= 1 THEN "" ELSE "greater_than_equal")
    ELSE IF v.t = "str" THEN
        (IF v.s \notin NumericTexts THEN "int_parsing"
         ELSE IF TextToInt(v.s) >= 1 THEN "" ELSE "greater_than_equal")
    ELSE "int_type"

\* pydantic's datetime validator in lax mode: an ISO-8601 str, or a number
\* (also as a str) taken as Unix time.
DatetimeError(v) ==
    IF v.t \in {"int", "float"} THEN ""
    ELSE IF v.t = "str" THEN
        (IF v.s \in IsoTexts \/ v.s \in NumericTexts THEN "" ELSE "datetime_parsing")
    ELSE "datetime_type"

\* The error of one field of the model against the mapping, "" when it passes.
FieldError(d, f) ==
    IF ~Has(d, f.name) THEN (IF f.required THEN "missing" ELSE "")
    ELSE LET v == Get(d, f.name) IN
         IF ~f.required /\ v.t = "null" THEN ""
         ELSE IF f.type = "str" THEN StrError(v)
         ELSE IF f.type = "int" THEN IntGe1Error(v)
         ELSE DatetimeError(v)

\* A faulty variant of model_validate that stops at the first failing field.
model_validate_first_only(d) ==
    LET bad == SelectSeq(SRE, LAMBDA f : FieldError(d, f) # "")
    IN  IF bad = <<>> THEN <<>>
        ELSE << [loc |-> bad[1].name, type |-> FieldError(d, bad[1])] >>

\* SRE.model_validate(data): e.errors(), one entry per failing field, in
\* field order; <<>> when the mapping validates.  Keys the model does not
\* declare are ignored.
model_validate(d) ==
    LET bad == SelectSeq(SRE, LAMBDA f : FieldError(d, f) # "")
    IN  [i \in 1..Len(bad) |-> [loc |-> bad[i].name, type |-> FieldError(d, bad[i])]]

\* --------------------------------------------------------- canonical bytes
\* json.dumps of one value with ensure_ascii=False: the text it writes.
Render(v) ==
    IF v.t = "str" THEN "\"" \o v.s \o "\""
    ELSE IF v.t = "int" THEN ToString(v.n)
    ELSE IF v.t = "float" THEN ToString(v.n \div 10) \o "." \o ToString(v.n % 10)
    ELSE "null"

\* Ascending code point order on the keys of the model.
KeyOrder == << "assignment_id", "deadline", "extra", "nonce", "repo_template",
               "round", "signature", "student_id" >>
Rank(k) == CHOOSE i \in 1..Len(KeyOrder) : KeyOrder[i] = k
KeyLess(a, b) == Rank(a) < Rank(b)

\* sorted(items): insertion of one item into an already sorted sequence.
RECURSIVE InsertSorted(_, _)
InsertSorted(it, s) ==
    IF s = <<>> THEN << it >>
    ELSE IF KeyLess(it.k, s[1].k) THEN << it >> \o s
    ELSE << s[1] >> \o InsertSorted(it, Tail(s))

RECURSIVE SortItems(_)
SortItems(d) == IF d = <<>> THEN <<>> ELSE InsertSorted(d[1], SortItems(Tail(d)))

\* str.encode("utf-8") raises UnicodeEncodeError on a lone surrogate.
Encodable(d) == \A i \in 1..Len(d) : ~HasSurrogate(d[i].v)

\* A faulty variant of _canonical_bytes that keeps insertion order (sort_keys lost).
canonical_bytes_unsorted(payload) ==
    LET d == DictPop(payload, "signature")
    IN  IF ~Encodable(d) THEN [raised |-> TRUE, members |-> <<>>]
        ELSE [raised |-> FALSE,
              members |-> [i \in 1..Len(d) |-> [k |-> d[i].k, text |-> Render(d[i].v)]]]

\* _canonical_bytes(payload): copy, pop 'signature', dump with sorted keys and
\* no spaces, encode.  members are the "key":text members of the JSON object
\* in the order they are written; raised is the UnicodeEncodeError.
canonical_bytes(payload) ==
    LET d == SortItems(DictPop(payload, "signature"))
    IN  IF ~Encodable(d) THEN [raised |-> TRUE, members |-> <<>>]
        ELSE [raised |-> FALSE,
              members |-> [i \in 1..Len(d) |-> [k |-> d[i].k, text |-> Render(d[i].v)]]]

\* ------------------------------------------------------------------ base64
\* A character of a signature text is a number: 0..63 are the characters of
\* the URL-safe alphabet A-Z a-z 0-9 - _ by their 6-bit value, and the
\* characters below stand for the rest.
CharDash == 62
CharUnderscore == 63
CharPlus == 64
CharSlash == 65
CharPad == 66
CharBang == 67

RECURSIVE Pads(_)
Pads(n) == IF n = 0 THEN <<>> ELSE << CharPad >> \o Pads(n - 1)

\* base64.urlsafe_b64encode(b): three bytes to four characters, the last
\* group filled up with '='.
RECURSIVE urlsafe_b64encode(_)
urlsafe_b64encode(b) ==
    IF Len(b) = 0 THEN <<>>
    ELSE IF Len(b) = 1 THEN << b[1] \div 4, (b[1] % 4) * 16, CharPad, CharPad >>
    ELSE IF Len(b) = 2 THEN
        << b[1] \div 4, (b[1] % 4) * 16 + b[2] \div 16, (b[2] % 16) * 4, CharPad >>
    ELSE << b[1] \div 4, (b[1] % 4) * 16 + b[2] \div 16,
            (b[2] % 16) * 4 + b[3] \div 64, b[3] % 64 >>
         \o urlsafe_b64encode(SubSeq(b, 4, Len(b)))

RECURSIVE RStripPad(_)
RStripPad(cs) ==
    IF cs # <<>> /\ cs[Len(cs)] = CharPad THEN RStripPad(SubSeq(cs, 1, Len(cs) - 1)) ELSE cs

\* _b64url_encode of the tests: URL-safe base64 without the padding.
b64url_encode(b) == RStripPad(urlsafe_b64encode(b))

\* bytes.translate of urlsafe_b64decode: '-' becomes '+', '_' becomes '/'.
Translate(c) == IF c = CharDash THEN CharPlus ELSE IF c = CharUnderscore THEN CharSlash ELSE c

\* The 6-bit value of a character in the standard alphabet, 64 for a
\* character that is not in it.
TableA2B(c) ==
    IF c < CharDash THEN c
    ELSE IF c = CharPlus THEN 62
    ELSE IF c = CharSlash THEN 63
    ELSE 64

\* binascii.a2b_base64 without strict_mode: characters outside the alphabet
\* are skipped, a completed pad sequence ends the parse, and what is left of
\* an unfinished group is an error.
RECURSIVE A2B(_, _, _, _, _, _)
A2B(cs, i, quad, left, pads, out) ==
    IF i > Len(cs) THEN [ok |-> quad = 0, bytes |-> out]
    ELSE LET c == cs[i] IN
         IF c = CharPad THEN
             (IF quad >= 2 /\ quad + pads + 1 >= 4 THEN [ok |-> TRUE, bytes |-> out]
              ELSE A2B(cs, i + 1, quad, left, IF quad >= 2 THEN pads + 1 ELSE pads, out))
         ELSE LET v == TableA2B(c) IN
              IF v >= 64 THEN A2B(cs, i + 1, quad, left, pads, out)
              ELSE IF quad = 0 THEN A2B(cs, i + 1, 1, v, 0, out)
              ELSE IF quad = 1 THEN
                  A2B(cs, i + 1, 2, v % 16, 0, Append(out, left * 4 + v \div 16))
              ELSE IF quad = 2 THEN
                  A2B(cs, i + 1, 3, v % 4, 0, Append(out, left * 16 + v \div 4))
              ELSE A2B(cs, i + 1, 0, 0, 0, Append(out, left * 64 + v))

\* A faulty variant of _b64url_decode that does not repair the padding.
b64url_decode_no_pad(cs) ==
    A2B([i \in 1..Len(cs) |-> Translate(cs[i])], 1, 0, 0, 0, <<>>)

\* _b64url_decode(s): pad with '=' to a multiple of four, then
\* base64.urlsafe_b64decode.  ok is FALSE for binascii.Error.
b64url_decode(cs) ==
    LET padded == cs \o Pads((4 - (Len(cs) % 4)) % 4)
    IN  A2B([i \in 1..Len(padded) |-> Translate(padded[i])], 1, 0, 0, 0, <<>>)

\* ----------------------------------------------------------------- Ed25519
\* The values a key of the mapping takes in the model; the first is the one
\* of the sample envelope of the tests.
Choices(k) ==
    CASE k = "assignment_id" -> << Str("A1"), Str("A2"), IntV(7) >>
      [] k = "student_id"    -> << Str("CSE/24084"), Null >>
      [] k = "repo_template" -> << Str("basic-webapp"), Null, IntV(7) >>
      [] k = "round"         -> << IntV(1), IntV(2), IntV(0), Str("1"), FloatV(10) >>
      [] k = "deadline"      -> << Str("2025-10-15T23:59:59+05:30"), Str("2025-10-16T00:00:00"),
                                   Str("not-a-date"), IntV(1700000000) >>
      [] k = "nonce"         -> << Str("abc123"), Null >>
      [] k = "extra"         -> << Str("x"), Str(LoneSurrogate) >>
      [] OTHER               -> << IntV(7) >>

\* The signature is modelled as an ideal one: deterministic, and different
\* for different keys or different messages.  Its bytes are a byte for the
\* key followed by a number that identifies the message, written big-endian.
MemberCode(m) == CHOOSE i \in 1..Len(Choices(m.k)) : Render(Choices(m.k)[i]) = m.text
Radix == 1 + Len(Choices("round"))

RECURSIVE Power(_, _)
Power(b, e) == IF e = 0 THEN 1 ELSE b * Power(b, e - 1)

RECURSIVE Digest(_)
Digest(members) ==
    IF members = <<>> THEN 0
    ELSE MemberCode(members[1]) * Power(Radix, Rank(members[1].k) - 1) + Digest(Tail(members))

RECURSIVE ToBytes(_, _)
ToBytes(n, len) == IF len = 0 THEN <<>> ELSE Append(ToBytes(n \div 256, len - 1), n % 256)

\* Ed25519PrivateKey.sign(msg) of key pair k: SigLen bytes.
Sign(k, members) == << 250 - k >> \o ToBytes(Digest(members), SigLen - 1)

\* A faulty variant of Ed25519Verify that does not look at the message.
Ed25519Verify_any_message(k, sig, members) == Len(sig) = SigLen /\ sig[1] = 250 - k

\* Ed25519PublicKey.verify(sig, msg) of key pair k returns (TRUE); otherwise
\* it raises InvalidSignature, also for a signature of the wrong length.
Ed25519Verify(k, sig, members) == Len(sig) = SigLen /\ sig = Sign(k, members)

\* ------------------------------------------------------------- environment
\* os.getenv("SRE_PUBLIC_KEY_PATH"): unset (None), set to "", or set to a path.
EnvValues == { [set |-> FALSE, value |-> ""], [set |-> TRUE, value |-> ""],
               [set |-> TRUE, value |-> "pub.pem"] }

\* What is at that path: nothing, a file that cannot be read, a file that is
\* no PEM public key, a PEM RSA key, or the PEM public key of key pair key.
FileStates ==
    { [kind |-> x, key |-> 0] : x \in {"absent", "unreadable", "garbage", "rsa"} }
    \cup { [kind |-> "ed25519", key |-> k] : k \in Keys }

\* A faulty variant of PathNotSet that only looks for None.
PathNotSet_none_only(e) == ~e.set

\* "not pub_path_env": the variable is unset (None) or empty.
PathNotSet(e) == ~e.set \/ e.value = ""

\* Path.exists()
PathExists(f) == f.kind # "absent"

\* What one look at the environment found: os.getenv its value, exists()
\* whether something is at the path, read_bytes() what is there.
NoFile == [kind |-> "", key |-> 0]
Look(op, e, f) ==
    [op |-> op,
     set |-> op = "getenv" /\ e.set,
     value |-> IF op = "getenv" THEN e.value ELSE "",
     exists |-> op = "exists" /\ PathExists(f),
     file |-> IF op = "read" THEN f ELSE NoFile]

\* A faulty variant of _load_public_key_from_pem without the isinstance check.
load_public_key_any_algorithm(f) ==
    IF f.kind = "absent" THEN [ok |-> FALSE, key |-> 0, ex |-> "FileNotFoundError"]
    ELSE IF f.kind = "unreadable" THEN [ok |-> FALSE, key |-> 0, ex |-> "PermissionError"]
    ELSE IF f.kind = "garbage" THEN [ok |-> FALSE, key |-> 0, ex |-> "Unable to load PEM file."]
    ELSE [ok |-> TRUE, key |-> IF f.kind = "rsa" THEN 1 ELSE f.key, ex |-> ""]

\* _load_public_key_from_pem(path): read_bytes, load_pem_public_key, and the
\* isinstance check; ex is the exception raised.
load_public_key_from_pem(f) ==
    IF f.kind = "absent" THEN [ok |-> FALSE, key |-> 0, ex |-> "FileNotFoundError"]
    ELSE IF f.kind = "unreadable" THEN [ok |-> FALSE, key |-> 0, ex |-> "PermissionError"]
    ELSE IF f.kind = "garbage" THEN [ok |-> FALSE, key |-> 0, ex |-> "Unable to load PEM file."]
    ELSE IF f.kind # "ed25519" THEN [ok |-> FALSE, key |-> 0, ex |-> "Public key is not Ed25519."]
    ELSE [ok |-> TRUE, key |-> f.key, ex |-> ""]

\* --------------------------------------------------------------- cli.accept
\* json.dumps(data, indent=2): the members in insertion order, each value as
\* the text json writes for it (the characters of a base64 text kept apart).
json_dumps(d) ==
    [i \in 1..Len(d) |-> [k |-> d[i].k, text |-> Render(d[i].v), b |-> d[i].v.b]]

\* .state/accepted_sre.json: absent, or holding the text written last.
NoStateFile == [exists |-> FALSE, members |-> <<>>]
StateFile(d) == [exists |-> TRUE, members |-> json_dumps(d)]

\* A faulty variant of Passes that lets every returned result through.
Passes_any_return(r) == r.kind = "return"

\* "ok, info = verify_sre(data)" and "if not ok: ... raise SystemExit(1)":
\* accept goes on to the write only when verify_sre returned a true ok; an
\* exception of verify_sre leaves accept at the call.
Passes(r) == r.kind = "return" /\ r.ok

\* A faulty variant of call_public_key that keeps the key object of another
\* call and loads from the file only when there is none.
call_public_key_cached(f, other) ==
    IF other # 0 THEN [ok |-> TRUE, key |-> other, ex |-> ""]
    ELSE load_public_key_from_pem(f)

\* pub = _load_public_key_from_pem(pub_path): the key a call verifies with is
\* loaded from the file as this call finds it; the module keeps no key
\* object, so the key another call loaded (other) plays no part.
call_public_key(f, other) == load_public_key_from_pem(f)

\* ------------------------------------------------------------------- state
VARIABLES
    data,       \* the mapping handed to verify_sre (json.loads of the file)
    orig,       \* the mapping as the issuer signed it, <<>> if no issuer did
    signer,     \* the key pair the issuer signed with, 0 if none
    edited,     \* whether the composer changed a field of the base envelope
    tampered,   \* the key changed after signing, "" if none
    env,        \* the environment variable SRE_PUBLIC_KEY_PATH
    file,       \* what is at the path the variable names
    pc,         \* "compose", "transit", or the position inside verify_sre
    pub,        \* verify_sre's local pub: the loaded key pair, 0 before
    sig,        \* verify_sre's local sig
    message,    \* verify_sre's local message
    result,     \* what verify_sre returned or raised
    log,        \* the stages of verify_sre that ran in this call
    reads,      \* what each look of this call at the environment found
    earlier,    \* the key an earlier or concurrent call loaded last, 0 if none
    accepted,   \* the file .state/accepted_sre.json
    status      \* the exit status of the accept command once pc = "exited"

vars == << data, orig, signer, edited, tampered, env, file, pc, pub, sig, message, result,
           log, reads, earlier, accepted, status >>
locals == << pub, sig, message >>
kept == << earlier, accepted, status >>
history == << log, reads >>
envelope == << data, orig, signer, edited, tampered >>

\* _sample_sre() of the tests, in its insertion order.
SampleSRE ==
    << [k |-> "assignment_id", v |-> Str("A1")],
       [k |-> "student_id",    v |-> Str("CSE/24084")],
       [k |-> "repo_template", v |-> Str("basic-webapp")],
       [k |-> "round",         v |-> IntV(1)],
       [k |-> "deadline",      v |-> Str("2025-10-15T23:59:59+05:30")],
       [k |-> "nonce",         v |-> Str("abc123")],
       [k |-> "signature",     v |-> B64Str(<<>>)] >>

Reverse(d) == [i \in 1..Len(d) |-> d[Len(d) + 1 - i]]

\* The envelopes composing starts from: the sample and the empty object.
Bases == { SampleSRE, <<>> }

\* Signature texts that no issuer made: bytes of the right length that are
\* no signature, bytes of a wrong length, characters outside the alphabet,
\* the standard alphabet's '+' and '/', and a text of an impossible length.
RawSignatures ==
    { b64url_encode(ToBytes(1, SigLen)),
      b64url_encode(<< 110, 111 >>),
      << CharBang, CharBang, CharBang, CharBang >>,
      << CharPlus, CharSlash, 0, 0 >>,
      << 0 >> }

\* The texts a signature text may be changed to in transit: padded, with a
\* character outside the alphabet appended, with the standard alphabet's
\* characters for '-' and '_', with its last character dropped or changed.
Untranslate(c) == IF c = CharDash THEN CharPlus ELSE IF c = CharUnderscore THEN CharSlash ELSE c
SignatureVariants(cs) ==
    { cs \o Pads((4 - (Len(cs) % 4)) % 4),
      Append(cs, CharBang),
      [i \in 1..Len(cs) |-> Untranslate(cs[i])],
      SubSeq(cs, 1, Len(cs) - 1),
      [i \in 1..Len(cs) |-> IF i = Len(cs) THEN (cs[i] + 1) % 64 ELSE cs[i]] } \ { cs }

NoResult == [kind |-> "none", ok |-> FALSE, reason |-> "", errors |-> <<>>, info |-> ""]
Return(ok, reason, errors, info) ==
    [kind |-> "return", ok |-> ok, reason |-> reason, errors |-> errors, info |-> info]
Raise(ex) == [kind |-> "raise", ok |-> FALSE, reason |-> "", errors |-> <<>>, info |-> ex]

Init ==
    /\ data \in Bases
    /\ orig = <<>>
    /\ signer = 0
    /\ edited = FALSE
    /\ tampered = ""
    /\ env \in EnvValues
    /\ file \in FileStates
    /\ pc = "compose"
    /\ pub = 0
    /\ sig = <<>>
    /\ message = <<>>
    /\ result = NoResult
    /\ log = <<>>
    /\ reads = <<>>
    /\ earlier = 0
    /\ accepted = NoStateFile
    /\ status = 0

\* ------------------------------------------------- composing and transit
\* The mapping d with key k set to v, or with key k removed when v is Absent.
Absent == [t |-> "absent", s |-> "", n |-> 0, b |-> <<>>]
Change(d, k, v) == IF v = Absent THEN DictPop(d, k) ELSE DictSet(d, k, v)
Current(d, k) == IF Has(d, k) THEN Get(d, k) ELSE Absent
Alternatives(d, k) ==
    ({ Choices(k)[i] : i \in 1..Len(Choices(k)) } \cup { Absent }) \ { Current(d, k) }

\* The composer changes one field of the base envelope.
Edit(k, v) ==
    /\ pc = "compose"
    /\ ~edited
    /\ v \in Alternatives(data, k)
    /\ data' = Change(data, k, v)
    /\ edited' = TRUE
    /\ UNCHANGED << orig, signer, tampered, env, file, pc, pub, sig, message, result, history, kept >>

\* The issuer signs the canonical bytes with key pair k and stores the
\* unpadded base64url text (test_verify_ok).
IssuerSign(k) ==
    /\ pc = "compose"
    /\ ~canonical_bytes(data).raised
    /\ data' = DictSet(data, "signature",
                       B64Str(b64url_encode(Sign(k, canonical_bytes(data).members))))
    /\ orig' = data'
    /\ signer' = k
    /\ pc' = "transit"
    /\ UNCHANGED << edited, tampered, env, file, pub, sig, message, result, history, kept >>

\* A signature text is put in that no issuer made (test_verify_bad_sig).
Forge(raw) ==
    /\ pc = "compose"
    /\ raw \in RawSignatures
    /\ data' = DictSet(data, "signature", B64Str(raw))
    /\ pc' = "transit"
    /\ UNCHANGED << orig, signer, edited, tampered, env, file, pub, sig, message, result, history, kept >>

\* The mapping is sent as composed.
Send ==
    /\ pc = "compose"
    /\ pc' = "transit"
    /\ UNCHANGED << envelope, env, file, pub, sig, message, result, history, kept >>

\* One field of a signed envelope is changed after signing, without
\* signing again.  An envelope differs from its base in one field at most:
\* the one the composer edited or the one changed in transit.
Tamper(k, v) ==
    /\ pc = "transit"
    /\ signer # 0
    /\ ~edited
    /\ tampered = ""
    /\ \/ k # "signature" /\ v \in Alternatives(data, k)
       \/ /\ k = "signature"
          /\ v \in { B64Str(cs) : cs \in SignatureVariants(Get(data, "signature").b) }
                   \cup { Absent, IntV(7) }
    /\ data' = Change(data, k, v)
    /\ tampered' = k
    /\ UNCHANGED << orig, signer, edited, env, file, pc, pub, sig, message, result, history, kept >>

\* ------------------------------------------------------------ environment
\* The variable is set, emptied or unset, at any time before or during a call.
SetEnv(e) ==
    /\ pc \notin { "done", "exited" }
    /\ e \in EnvValues
    /\ e # env
    /\ env' = e
    /\ UNCHANGED << envelope, file, pc, locals, result, history, kept >>

\* The key file is written, replaced, made unreadable or deleted.
WriteFile(f) ==
    /\ pc \notin { "done", "exited" }
    /\ f \in FileStates
    /\ f # file
    /\ file' = f
    /\ UNCHANGED << envelope, env, pc, locals, result, history, kept >>

\* Another call of verify_sre, in another thread or before the call at hand,
\* loads the key from the file as it is now.
OtherCallLoad ==
    /\ pc \notin { "done", "exited" }
    /\ load_public_key_from_pem(file).ok
    /\ earlier' = load_public_key_from_pem(file).key
    /\ earlier' # earlier
    /\ UNCHANGED << envelope, env, file, pc, locals, result, history, accepted, status >>

\* --------------------------------------------------------------- verify_sre
\* The caller decodes the file and calls verify_sre(data).
Call ==
    /\ pc = "transit"
    /\ pc' = "validate"
    /\ pub' = 0
    /\ sig' = <<>>
    /\ message' = <<>>
    /\ result' = NoResult
    /\ log' = <<>>
    /\ reads' = <<>>
    /\ UNCHANGED << envelope, env, file, kept >>

\* 1) SRE.model_validate(data); a ValidationError is returned as a reason.
Validate ==
    /\ pc = "validate"
    /\ log' = Append(log, "schema")
    /\ reads' = reads
    /\ LET errors == model_validate(data) IN
       IF errors # <<>>
       THEN /\ result' = Return(FALSE, "Schema validation failed: ", errors, "")
            /\ pc' = "done"
       ELSE /\ result' = result
            /\ pc' = "getenv"
    /\ UNCHANGED << envelope, env, file, locals, kept >>

\* 2) os.getenv("SRE_PUBLIC_KEY_PATH") and the test "if not pub_path_env".
GetEnv ==
    /\ pc = "getenv"
    /\ log' = Append(log, "keypath")
    /\ reads' = Append(reads, Look("getenv", env, file))
    /\ IF PathNotSet(env)
       THEN /\ result' = Return(FALSE,
                   "SRE_PUBLIC_KEY_PATH is not set (path to PEM Ed25519 public key).", <<>>, "")
            /\ pc' = "done"
       ELSE /\ result' = result
            /\ pc' = "exists"
    /\ UNCHANGED << envelope, env, file, locals, kept >>

\* pub_path.exists()
Exists ==
    /\ pc = "exists"
    /\ log' = Append(log, "exists")
    /\ reads' = Append(reads, Look("exists", env, file))
    /\ IF ~PathExists(file)
       THEN /\ result' = Return(FALSE, "Public key not found at: ", <<>>, "pub.pem")
            /\ pc' = "done"
       ELSE /\ result' = result
            /\ pc' = "load"
    /\ UNCHANGED << envelope, env, file, locals, kept >>

\* _load_public_key_from_pem(pub_path) under "except Exception".
Load ==
    /\ pc = "load"
    /\ log' = Append(log, "load")
    /\ reads' = Append(reads, Look("read", env, file))
    /\ LET r == call_public_key(file, earlier) IN
       IF ~r.ok
       THEN /\ result' = Return(FALSE, "Failed to load public key: ", <<>>, r.ex)
            /\ pc' = "done"
            /\ pub' = pub
       ELSE /\ result' = result
            /\ pc' = "decode"
            /\ pub' = r.key
    /\ UNCHANGED << envelope, env, file, sig, message, kept >>

\* str(data.get("signature", "")): the text of the signature.
SignatureText(d) == IF Has(d, "signature") THEN Get(d, "signature").b ELSE <<>>

\* 3) _b64url_decode of the signature under "except Exception".
Decode ==
    /\ pc = "decode"
    /\ log' = Append(log, "decode")
    /\ reads' = reads
    /\ LET r == b64url_decode(SignatureText(data)) IN
       IF ~r.ok
       THEN /\ result' = Return(FALSE, "Signature is not valid base64url.", <<>>, "")
            /\ pc' = "done"
            /\ sig' = sig
       ELSE /\ result' = result
            /\ pc' = "canonical"
            /\ sig' = r.bytes
    /\ UNCHANGED << envelope, env, file, pub, message, kept >>

\* 4) message = _canonical_bytes(data), outside any try block.
Canonical ==
    /\ pc = "canonical"
    /\ log' = Append(log, "canonical")
    /\ reads' = reads
    /\ LET c == canonical_bytes(data) IN
       IF c.raised
       THEN /\ result' = Raise("UnicodeEncodeError")
            /\ pc' = "done"
            /\ message' = message
       ELSE /\ result' = result
            /\ pc' = "verify"
            /\ message' = c.members
    /\ UNCHANGED << envelope, env, file, pub, sig, kept >>

\* 5) pub.verify(sig, message) under "except Exception", then return.
Verify ==
    /\ pc = "verify"
    /\ log' = Append(log, "verify")
    /\ reads' = reads
    /\ result' = IF Ed25519Verify(pub, sig, message)
                 THEN Return(TRUE, "ok", <<>>, "")
                 ELSE Return(FALSE, "Signature verification failed.", <<>>, "")
    /\ pc' = "done"
    /\ UNCHANGED << envelope, env, file, locals, kept >>

\* The rest of accept once verify_sre is over: a result that does not pass
\* ends the command with status 1 (SystemExit(1), or the exception of
\* verify_sre going up to the interpreter); one that passes is followed by
\* the write of the state file and the command ends with status 0.
Exit ==
    /\ pc = "done"
    /\ pc' = "exited"
    /\ IF Passes(result)
       THEN /\ accepted' = StateFile(data)
            /\ status' = 0
       ELSE /\ accepted' = accepted
            /\ status' = 1
    /\ UNCHANGED << envelope, env, file, locals, result, history, earlier >>

\* The command is over; the next envelope is composed for its next run, in a
\* new process, which finds the state file as the last run left it.
NextRun ==
    /\ pc = "exited"
    /\ data' \in Bases
    /\ orig' = <<>>
    /\ signer' = 0
    /\ edited' = FALSE
    /\ tampered' = ""
    /\ pc' = "compose"
    /\ pub' = 0
    /\ sig' = <<>>
    /\ message' = <<>>
    /\ result' = NoResult
    /\ log' = <<>>
    /\ reads' = <<>>
    /\ status' = 0
    /\ UNCHANGED << env, file, earlier, accepted >>

\* A call by a caller other than accept is over; the next envelope is composed.
NextEnvelope ==
    /\ pc = "done"
    /\ data' \in Bases
    /\ orig' = <<>>
    /\ signer' = 0
    /\ edited' = FALSE
    /\ tampered' = ""
    /\ pc' = "compose"
    /\ pub' = 0
    /\ sig' = <<>>
    /\ message' = <<>>
    /\ result' = NoResult
    /\ log' = <<>>
    /\ reads' = <<>>
    /\ UNCHANGED << env, file, kept >>

Next ==
    \/ /\ pc = "compose"
       /\ \E k \in DictKeys(SampleSRE) \cup {"extra"} :
            \E v \in Alternatives(data, k) : Edit(k, v)
    \/ \E k \in Keys : IssuerSign(k)
    \/ \E raw \in RawSignatures : Forge(raw)
    \/ Send
    \/ /\ pc = "transit"
       /\ signer # 0
       /\ \E k \in DictKeys(SampleSRE) \cup {"extra"} :
            \E v \in Alternatives(data, k)
                     \cup { B64Str(cs) : cs \in SignatureVariants(SignatureText(data)) } :
                Tamper(k, v)
    \/ \E e \in EnvValues : SetEnv(e)
    \/ \E f \in FileStates : WriteFile(f)
    \/ Call
    \/ Validate
    \/ GetEnv
    \/ Exists
    \/ Load
    \/ Decode
    \/ Canonical
    \/ Verify
    \/ NextEnvelope

Spec == Init /\ [][Next]_vars

\* Calls of verify_sre in one process that other calls run beside and
\* before: the envelope is a base envelope, signed or not, forged, or changed
\* in transit, and another call may load the key at any moment.
CallsNext ==
    \/ \E k \in Keys : IssuerSign(k)
    \/ \E raw \in RawSignatures : Forge(raw)
    \/ Send
    \/ /\ pc = "transit"
       /\ signer # 0
       /\ \E k \in DictKeys(SampleSRE) \cup {"extra"} :
            \E v \in Alternatives(data, k)
                     \cup { B64Str(cs) : cs \in SignatureVariants(SignatureText(data)) } :
                Tamper(k, v)
    \/ \E e \in EnvValues : SetEnv(e)
    \/ \E f \in FileStates : WriteFile(f)
    \/ OtherCallLoad
    \/ Call
    \/ Validate
    \/ GetEnv
    \/ Exists
    \/ Load
    \/ Decode
    \/ Canonical
    \/ Verify
    \/ NextEnvelope

CallsSpec == Init /\ [][CallsNext]_vars

\* Runs of the accept command, one process each: the envelope in the file is
\* a base envelope, signed or not, forged, or changed in transit.
AcceptNext ==
    \/ \E k \in Keys : IssuerSign(k)
    \/ \E raw \in RawSignatures : Forge(raw)
    \/ Send
    \/ /\ pc = "transit"
       /\ signer # 0
       /\ \E k \in DictKeys(SampleSRE) \cup {"extra"} :
            \E v \in Alternatives(data, k)
                     \cup { B64Str(cs) : cs \in SignatureVariants(SignatureText(data)) } :
                Tamper(k, v)
    \/ \E e \in EnvValues : SetEnv(e)
    \/ \E f \in FileStates : WriteFile(f)
    \/ Call
    \/ Validate
    \/ GetEnv
    \/ Exists
    \/ Load
    \/ Decode
    \/ Canonical
    \/ Verify
    \/ Exit
    \/ NextRun

AcceptSpec == Init /\ [][AcceptNext]_vars

\* ================================================================== claims
Returned(ok, reason) == result = Return(ok, reason, <<>>, "")
SchemaValid(d) == \A i \in 1..Len(SRE) : FieldError(d, SRE[i]) = ""

\* Every look the call took at the environment found SRE_PUBLIC_KEY_PATH set
\* to the path and the PEM public key of key pair k at that path.
KeyConfigured(k) ==
    \A i \in 1..Len(reads) :
        /\ reads[i].op = "getenv" => reads[i].set /\ reads[i].value = "pub.pem"
        /\ reads[i].op = "exists" => reads[i].exists
        /\ reads[i].op = "read" => reads[i].file = [kind |-> "ed25519", key |-> k]

\* The envelope verify_sre was given is the one the issuer signed.
AsSigned == signer # 0 /\ tampered = "" /\ data = orig

\* C1 (round-trip validity): a schema-valid envelope whose signature field is
\* the unpadded base64url text of the issuer's signature over its canonical
\* bytes, verified with the variable pointing to the matching public key,
\* makes verify_sre return (True, "ok").
C1_RoundTrip ==
    (pc = "done" /\ AsSigned /\ SchemaValid(data) /\ KeyConfigured(signer))
        => Returned(TRUE, "ok")

C1_Witness ==
    /\ pc = "done" /\ AsSigned /\ SchemaValid(data) /\ KeyConfigured(signer)
    /\ edited /\ signer = NumKeys
    /\ Len(SignatureText(data)) % 4 # 0
    /\ result.ok

DeclaredFields == { SRE[i].name : i \in 1..Len(SRE) }
SignatureIsValid(d, k) ==
    /\ ~canonical_bytes(d).raised
    /\ Ed25519Verify(k, b64url_decode(SignatureText(d)).bytes, canonical_bytes(d).members)
KeyLoaded == \E i \in 1..Len(log) : log[i] = "decode"
C3_GenericFailure ==
    (/\ pc = "done" /\ SchemaValid(data) /\ KeyLoaded
     /\ b64url_decode(SignatureText(data)).ok
     /\ ~SignatureIsValid(data, pub))
        => Returned(FALSE, "Signature verification failed.")

\* C4 (missing key configuration): when the schema stage passed and
\* SRE_PUBLIC_KEY_PATH was found unset or empty, verify_sre has returned
\* (False, "... is not set ...") and the key file was never looked at, the key
\* never loaded, no signature decoded and nothing verified.
FoundNotSet ==
    Len(reads) >= 1 /\ reads[1].op = "getenv" /\ (~reads[1].set \/ reads[1].value = "")
C4_MissingKeyConfiguration ==
    FoundNotSet =>
        /\ pc = "done"
        /\ Returned(FALSE, "SRE_PUBLIC_KEY_PATH is not set (path to PEM Ed25519 public key).")
        /\ log = << "schema", "keypath" >>
        /\ Len(reads) = 1
        /\ pub = 0 /\ sig = <<>> /\ message = <<>>

C4_Witness ==
    /\ FoundNotSet /\ pc = "done" /\ ~result.ok
    /\ reads[1].set /\ AsSigned /\ file = [kind |-> "ed25519", key |-> signer]

\* C5 (schema rejection is aggregate): whenever a field of the mapping fails
\* the schema, verify_sre returns (False, "Schema validation failed: ...")
\* from the schema stage, and the errors of the reason name every failing
\* field, not only the first.
Offending(d) == { SRE[i].name : i \in { j \in 1..Len(SRE) : FieldError(d, SRE[j]) # "" } }
C5_SchemaRejectionAggregate ==
    (pc = "done" /\ Offending(data) # {}) =>
        /\ result.kind = "return" /\ ~result.ok
        /\ result.reason = "Schema validation failed: "
        /\ { result.errors[i].loc : i \in 1..Len(result.errors) } = Offending(data)
        /\ log = << "schema" >>

C5_Witness ==
    /\ pc = "done" /\ Cardinality(Offending(data)) >= 3
    /\ \E i \in 1..Len(result.errors) : result.errors[i].type = "missing"
    /\ \E i \in 1..Len(result.errors) : result.errors[i].type = "greater_than_equal"

\* C6 (short-circuit order): the stages run in the fixed order schema, key
\* path, key file exists, key loads, signature decodes, (canonical bytes,)
\* cryptographic check; what verify_sre returns is the reason of the first
\* stage that fails, and no stage after it runs.  A stage that ran fails by
\* what it found; a stage that did not run would fail by what is there now.
StageOrder == << "schema", "keypath", "exists", "load", "decode", "canonical", "verify" >>
Found(op) == reads[CHOOSE i \in 1..Len(reads) : reads[i].op = op]
Looked(op) == \E i \in 1..Len(reads) : reads[i].op = op
StageFails(st) ==
    CASE st = "schema"  -> Offending(data) # {}
      [] st = "keypath" -> IF Looked("getenv")
                           THEN ~Found("getenv").set \/ Found("getenv").value = ""
                           ELSE ~env.set \/ env.value = ""
      [] st = "exists"  -> IF Looked("exists") THEN ~Found("exists").exists
                           ELSE file.kind = "absent"
      [] st = "load"    -> IF Looked("read") THEN Found("read").file.kind # "ed25519"
                           ELSE file.kind # "ed25519"
      [] st = "decode"  -> ~b64url_decode(SignatureText(data)).ok
      [] st = "verify"  -> ~SignatureIsValid(data, IF Looked("read") THEN Found("read").file.key
                                                   ELSE file.key)
      [] OTHER          -> FALSE
ReasonOf(st) ==
    CASE st = "schema"  -> "Schema validation failed: "
      [] st = "keypath" -> "SRE_PUBLIC_KEY_PATH is not set (path to PEM Ed25519 public key)."
      [] st = "exists"  -> "Public key not found at: "
      [] st = "load"    -> "Failed to load public key: "
      [] st = "decode"  -> "Signature is not valid base64url."
      [] OTHER          -> "Signature verification failed."
Failing == { i \in 1..Len(StageOrder) : StageFails(StageOrder[i]) }
OutsideAlphabet(cs) == \E i \in 1..Len(cs) : cs[i] \in { CharPlus, CharSlash, CharBang }
ImpossibleLength(cs) == Len(RStripPad(cs)) % 4 = 1
DecodeRan == \E i \in 1..Len(log) : log[i] = "decode"
C7_DecodingStrictness ==
    (/\ DecodeRan
     /\ OutsideAlphabet(SignatureText(data)) \/ ImpossibleLength(SignatureText(data)))
        => pc = "done" /\ Returned(FALSE, "Signature is not valid base64url.")

\* C8 (canonicalization determinism): the canonical bytes of a mapping do
\* not depend on the insertion order of its keys nor on the value or the
\* absence of 'signature'; their keys ascend and 'signature' is not among
\* them.
CanonVariants(d) ==
    { Reverse(d), DictPop(d, "signature"), DictSet(d, "signature", Str("x")),
      DictSet(DictPop(d, "signature"), "signature", IntV(7)),
      IF d = <<>> THEN d ELSE Append(Tail(d), Head(d)) }
C8_CanonicalDeterminism ==
    /\ \A d \in CanonVariants(data) : canonical_bytes(d) = canonical_bytes(data)
    /\ pc = "verify" =>
          /\ message = canonical_bytes(Reverse(data)).members
          /\ \A i \in 1..Len(message) : message[i].k # "signature"
          /\ \A i \in 1..(Len(message) - 1) : KeyLess(message[i].k, message[i + 1].k)

C8_Witness ==
    /\ pc = "verify" /\ Len(message) >= 6 /\ Has(data, "signature")
    /\ \E i \in 1..(Len(data) - 1) : KeyLess(data[i + 1].k, data[i].k)

\* C9 (no failure escapes as an exception): verify_sre ends by returning a
\* (bool, reason) pair and never raises.
C9_NeverRaises == pc = "done" => result.kind = "return"

\* C10 (schema soundness): the schema stage is passed only by a mapping in
\* which assignment_id, student_id and signature are strings, round is an
\* integer >= 1, deadline is a string holding an ISO-8601 date-time, and
\* repo_template and nonce are a string, null or absent.
IsStr(d, k) == Has(d, k) /\ Get(d, k).t = "str"
IsOptStr(d, k) == ~Has(d, k) \/ Get(d, k).t \in { "str", "null" }
StrictlyTyped(d) ==
    /\ IsStr(d, "assignment_id") /\ IsStr(d, "student_id") /\ IsStr(d, "signature")
    /\ Has(d, "round") /\ Get(d, "round").t = "int" /\ Get(d, "round").n >= 1
    /\ IsStr(d, "deadline") /\ Get(d, "deadline").s \in IsoTexts
    /\ IsOptStr(d, "repo_template") /\ IsOptStr(d, "nonce")
C10_SchemaSoundness == Len(log) >= 2 => StrictlyTyped(data)

\* What a call returns or raises for the mapping d when os.getenv found e,
\* exists() found x and read_bytes() found f: the stages of verify_sre in
\* their order, as a function of these four alone.
Outcome(d, e, x, f) ==
    LET errors == model_validate(d)
        key == load_public_key_from_pem(f)
        signature == b64url_decode(SignatureText(d))
        canonical == canonical_bytes(d)
    IN  IF errors # <<>> THEN Return(FALSE, "Schema validation failed: ", errors, "")
        ELSE IF PathNotSet(e)
        THEN Return(FALSE, "SRE_PUBLIC_KEY_PATH is not set (path to PEM Ed25519 public key).",
                    <<>>, "")
        ELSE IF ~x THEN Return(FALSE, "Public key not found at: ", <<>>, "pub.pem")
        ELSE IF ~key.ok THEN Return(FALSE, "Failed to load public key: ", <<>>, key.ex)
        ELSE IF ~signature.ok THEN Return(FALSE, "Signature is not valid base64url.", <<>>, "")
        ELSE IF canonical.raised THEN Raise("UnicodeEncodeError")
        ELSE IF Ed25519Verify(key.key, signature.bytes, canonical.members)
        THEN Return(TRUE, "ok", <<>>, "")
        ELSE Return(FALSE, "Signature verification failed.", <<>>, "")

\* What this call's own looks found; a look the call did not take found nothing.
FoundEnv ==
    IF Looked("getenv") THEN [set |-> Found("getenv").set, value |-> Found("getenv").value]
    ELSE [set |-> FALSE, value |-> ""]
FoundExists == Looked("exists") /\ Found("exists").exists
FoundFile == IF Looked("read") THEN Found("read").file ELSE NoFile

\* C11 (key read fresh per call, no shared state): whatever calls ran before
\* or run at the same time, and however the key file and the variable were
\* replaced between and during calls, the outcome of a call is the function
\* Outcome of its own envelope and of what its own looks found (the key file
\* as it was when this call read it), and the key it verifies with is the one
\* in the file it read, not one that another call loaded.
C11_FreshKeyPerCall ==
    /\ pc = "done" => result = Outcome(data, FoundEnv, FoundExists, FoundFile)
    /\ (Looked("read") /\ load_public_key_from_pem(FoundFile).ok)
            => pub = load_public_key_from_pem(FoundFile).key
    /\ (Looked("read") /\ ~load_public_key_from_pem(FoundFile).ok) => pub = 0

\* Another call loaded one key, the file was replaced, and this call read
\* the new key from it and verified the envelope signed with the new key.
C11_Witness ==
    /\ pc = "done"
    /\ earlier # 0
    /\ AsSigned
    /\ earlier # signer
    /\ Looked("read")
    /\ FoundFile = [kind |-> "ed25519", key |-> signer]
    /\ Returned(TRUE, "ok")

\* C12 (accept is gated on verification): in every run of the accept command
\* the state file changes only in the step that follows a call of verify_sre
\* which returned (True, "ok") for the mapping decoded from the given file,
\* and it then holds that mapping; when verify_sre returned a false ok the
\* command ends with exit status 1 and the state file is as it was.
C12_AcceptGated ==
    [][ /\ accepted' # accepted =>
             /\ pc = "done"
             /\ Returned(TRUE, "ok")
             /\ data' = data
             /\ accepted' = StateFile(data)
        /\ (pc = "done" /\ result.kind = "return" /\ ~result.ok) =>
             /\ pc' = "exited"
             /\ status' = 1
             /\ accepted' = accepted ]_vars

\* An earlier run accepted an envelope and wrote the state file; this run's
\* envelope was refused by verify_sre, the command ended with status 1 and
\* the state file still holds the earlier envelope.
C12_Witness ==
    /\ pc = "exited"
    /\ result.kind = "return"
    /\ ~result.ok
    /\ status = 1
    /\ accepted.exists
    /\ accepted # StateFile(data)

====
